---- MODULE Spec2Model ----
(***************************************************************************)
(* Quick Clip Manager (src/main.py): the quick-input overlay, its alias    *)
(* matching and ranking, the keyboard navigation between the entry and the *)
(* suggestion list, and the alias store it reads.                          *)
(*                                                                         *)
(* A text is a sequence of characters, each character a one-character      *)
(* string.  The two non-ASCII characters of the model are written by their *)
(* code points: "U+00C9" (capital E with acute) and "U+00E9" (small e with *)
(* acute).                                                                 *)
(***************************************************************************)
EXTENDS Naturals, Sequences, FiniteSets

(***************************************************************************)
(* Bounds of the model.                                                    *)
(***************************************************************************)
MaxPending == 1

(***************************************************************************)
(* Characters.                                                             *)
(***************************************************************************)
Whitespace == {" "}

CodePoint(c) ==
    CASE c = " " -> 32
      [] c = "%" -> 37
      [] c = "/" -> 47
      [] c = "2" -> 50
      [] c = "H" -> 72
      [] c = "I" -> 73
      [] c = "_" -> 95
      [] c = "b" -> 98
      [] c = "e" -> 101
      [] c = "h" -> 104
      [] c = "i" -> 105
      [] c = "l" -> 108
      [] c = "m" -> 109
      [] c = "x" -> 120
      [] c = "U+00C9" -> 201
      [] c = "U+00E9" -> 233

\* str.lower() of Python: Unicode aware.
PyLowerChar(c) ==
    CASE c = "H" -> "h"
      [] c = "I" -> "i"
      [] c = "U+00C9" -> "U+00E9"
      [] OTHER -> c

\* lower() of SQLite, also the folding of LIKE and of COLLATE NOCASE: ASCII only.
SqlLowerChar(c) ==
    CASE c = "H" -> "h"
      [] c = "I" -> "i"
      [] OTHER -> c

PyLower(s) == [k \in 1..Len(s) |-> PyLowerChar(s[k])]

SqlLower(s) == [k \in 1..Len(s) |-> SqlLowerChar(s[k])]

RECURSIVE LStrip(_)
LStrip(s) ==
    IF s # <<>> /\ s[1] \in Whitespace THEN LStrip(Tail(s)) ELSE s

RECURSIVE RStrip(_)
RStrip(s) ==
    IF s # <<>> /\ s[Len(s)] \in Whitespace
    THEN RStrip(SubSeq(s, 1, Len(s) - 1))
    ELSE s

\* str.strip()
PyStrip(s) == RStrip(LStrip(s))

\* StartsWithTrigger without the test for the trigger character.
StartsWithAnything(s) == s # <<>>

\* text.startswith('/')
StartsWithTrigger(s) == s # <<>> /\ s[1] = "/"

\* The LIKE operator of SQLite: % is any run, _ any one character, ASCII letters
\* compare without case.
RECURSIVE Like(_, _)
Like(p, s) ==
    IF p = <<>> THEN s = <<>>
    ELSE IF p[1] = "%" THEN Like(Tail(p), s) \/ (s # <<>> /\ Like(p, Tail(s)))
    ELSE IF s = <<>> THEN FALSE
    ELSE IF p[1] = "_" THEN Like(Tail(p), Tail(s))
    ELSE SqlLowerChar(p[1]) = SqlLowerChar(s[1]) /\ Like(Tail(p), Tail(s))

\* a = b COLLATE NOCASE
NoCaseEq(a, b) == SqlLower(a) = SqlLower(b)

\* The BINARY collation: byte order, a proper prefix first.
RECURSIVE BinaryLess(_, _)
BinaryLess(s, t) ==
    IF t = <<>> THEN FALSE
    ELSE IF s = <<>> THEN TRUE
    ELSE IF CodePoint(s[1]) # CodePoint(t[1]) THEN CodePoint(s[1]) < CodePoint(t[1])
    ELSE BinaryLess(Tail(s), Tail(t))

(***************************************************************************)
(* The queries on the aliases table.  A store is a function from alias to  *)
(* content (alias TEXT UNIQUE, BINARY collation); a row is <<alias,        *)
(* content>>, as fetchall() returns it.                                    *)
(***************************************************************************)
Limit == 10

\* Take without the LIMIT.
TakeAll(rows, n) == rows

Take(rows, n) == SubSeq(rows, 1, IF Len(rows) < n THEN Len(rows) ELSE n)

\* CASE WHEN LOWER(alias) = ? THEN 0 WHEN LOWER(alias) LIKE ? THEN 1 ELSE 2 END
Tier(alias, search_text) ==
    IF SqlLower(alias) = search_text THEN 0
    ELSE IF Like(search_text \o <<"%">>, SqlLower(alias)) THEN 1
    ELSE 2

\* ORDER BY CASE ... END, LENGTH(alias), alias
SearchLess(a, b, search_text) ==
    IF Tier(a, search_text) # Tier(b, search_text)
    THEN Tier(a, search_text) < Tier(b, search_text)
    ELSE IF Len(a) # Len(b) THEN Len(a) < Len(b)
    ELSE BinaryLess(a, b)

RECURSIVE SearchOrder(_, _, _)
SearchOrder(st, aliases, search_text) ==
    IF aliases = {} THEN <<>>
    ELSE LET first == CHOOSE a \in aliases :
                        \A b \in aliases \ {a} : SearchLess(a, b, search_text)
         IN <<(<<first, st[first]>>)>> \o SearchOrder(st, aliases \ {first}, search_text)

\* WHERE LOWER(alias) LIKE '%search_text%'
LikeRows(st, search_text) ==
    {a \in DOMAIN st : Like(<<"%">> \o search_text \o <<"%">>, SqlLower(a))}

\* The search of update_suggestions, LIMIT 10.
SearchRows(st, search_text) ==
    Take(SearchOrder(st, LikeRows(st, search_text), search_text), Limit)

RECURSIVE AliasOrder(_, _)
AliasOrder(st, aliases) ==
    IF aliases = {} THEN <<>>
    ELSE LET first == CHOOSE a \in aliases :
                        \A b \in aliases \ {a} : BinaryLess(a, b)
         IN <<(<<first, st[first]>>)>> \o AliasOrder(st, aliases \ {first})

\* SELECT alias, content FROM aliases ORDER BY alias LIMIT 10
ListAllRows(st) == Take(AliasOrder(st, DOMAIN st), Limit)

\* WHERE LOWER(alias) = ? COLLATE NOCASE: the rows fetchone() can return (the
\* statement has no ORDER BY).
ExactRows(st, search_text) ==
    {a \in DOMAIN st : NoCaseEq(SqlLower(a), search_text)}

\* PartialRows with the ORDER BY of the search of update_suggestions.
PartialRowsTiered(st, search_text) ==
    LET found == LikeRows(st, search_text)
    IN {a \in found : \A b \in found \ {a} : SearchLess(a, b, search_text)}

\* WHERE LOWER(alias) LIKE ? COLLATE NOCASE ORDER BY LENGTH(alias), alias LIMIT 1
PartialRows(st, search_text) ==
    LET found == LikeRows(st, search_text)
    IN {a \in found :
          \A b \in found \ {a} :
             IF Len(a) # Len(b) THEN Len(a) < Len(b) ELSE BinaryLess(a, b)}

\* The rows the two statements of process_quick_input can resolve the term to.
ResolveRows(st, search_text) ==
    IF ExactRows(st, search_text) # {}
    THEN ExactRows(st, search_text)
    ELSE PartialRows(st, search_text)

(***************************************************************************)
(* The inputs of the model: the databases the program can start on, what   *)
(* the user can have in the entry, and what the management window saves.   *)
(***************************************************************************)
MakeStore(rows) ==
    [a \in {r[1] : r \in rows} |-> (CHOOSE r \in rows : r[1] = a)[2]]

BigAliases ==
    { <<"b">>, <<"x">>, <<"b", "b">>, <<"b", "x">>, <<"x", "b">>, <<"x", "x">>,
      <<"b", "b", "b">>, <<"b", "b", "x">>, <<"b", "x", "b">>, <<"x", "b", "b">>,
      <<"x", "x", "x">> }

InitStores ==
    { MakeStore({}),
      MakeStore({ <<(<<"h", "i">>), "hello">> }),
      MakeStore({ <<(<<"e", "m", "l">>), "me@example.com">>,
                  <<(<<"e", "m", "2">>), "alt@example.com">> }),
      MakeStore({ <<(<<"U+00C9">>), "accent">> }),
      MakeStore({ <<(<<"x", "h">>), "short">>,
                  <<(<<"h", "i", "b">>), "prefix">> }),
      MakeStore({ <<a, "big">> : a \in BigAliases }) }

Queries ==
    { <<>>, <<"/">>, <<"h", "i">>, <<"/", "h">>, <<"/", "h", "i">>,
      <<"/", "H", "I">>, <<" ", "/", "h", "i">>,
      <<"/", " ", "h", "i">>, <<"/", "e", "m">>, <<"/", "_">>,
      <<"/", "U+00C9">> }

SaveAliases == { <<>>, <<" ", "H", "i">> }

SaveContents == { "HELLO" }

\* The rows the user picks in the tree to delete.
DeleteAliases == { <<"h", "i">> }

NavKeys == { "Up", "Down", "Tab" }

(***************************************************************************)
(* The state of QuickClipManager.                                          *)
(***************************************************************************)
VARIABLES
    store,                    \* the aliases table: alias -> content
    pending,                  \* toggle requests posted by root.after(0, ...)
    is_quick_window_visible,  \* self.is_quick_window_visible
    quick_window,             \* TRUE iff the quick input window is mapped
    suggestion_window,        \* TRUE iff the suggestion window is mapped
    quick_entry,              \* the text of self.quick_entry
    suggestion_listbox,       \* the rows of self.suggestion_listbox
    selection,                \* curselection() of the listbox, indices from 0
    focus,                    \* the widget with the keyboard focus
    current_suggestions,      \* self.current_suggestions
    clipboard,                \* what pyperclip.copy stored last
    running,                  \* self.running
    hooked,                   \* TRUE iff the keyboard library holds the hotkey hook
    exited,                   \* TRUE iff os._exit(0) ended the process
    last                      \* the handler that ran last ("tk": a binding of
                              \* Tk itself), and its outcome

vars ==
    <<store, pending, is_quick_window_visible, quick_window,
      suggestion_window, quick_entry, suggestion_listbox, selection, focus,
      current_suggestions, clipboard, running, hooked, exited, last>>

\* What only the tray thread, the hotkey thread and the exit paths change.
process == <<running, hooked, exited>>

Outcome(op, query, db_failed, clip_failed, note) ==
    [op |-> op, query |-> query, db_failed |-> db_failed,
     clip_failed |-> clip_failed, note |-> note, key |-> "none"]

\* The outcome of a handler of <Up>, <Down> and <Tab>: event.keysym is kept.
KeyOutcome(op, key) ==
    [Outcome(op, <<>>, FALSE, FALSE, "none") EXCEPT !.key = key]

Init ==
    /\ store \in InitStores
    /\ pending = 0
    /\ is_quick_window_visible = FALSE
    /\ quick_window = FALSE
    /\ suggestion_window = FALSE
    /\ quick_entry = <<>>
    /\ suggestion_listbox = <<>>
    /\ selection = {}
    /\ focus = "none"
    /\ current_suggestions = <<>>
    /\ clipboard = ""
    /\ running = TRUE
    /\ hooked = FALSE
    /\ exited = FALSE
    /\ last = Outcome("init", <<>>, FALSE, FALSE, "none")

(***************************************************************************)
(* The helpers the handlers call.                                          *)
(***************************************************************************)
MaxLen(rows) ==
    CHOOSE n \in {Len(rows[k][1]) : k \in 1..Len(rows)} :
        \A k \in 1..Len(rows) : Len(rows[k][1]) <= n

\* The display text of a row: the alias padded to the widest alias plus two, then
\* the content (the contents of the model are shorter than 50 characters).
DisplayText(row, width) == [alias |-> row[1], width |-> width, preview |-> row[2]]

ShowSuggestions(matches) ==
    /\ suggestion_listbox' =
          [k \in 1..Len(matches) |-> DisplayText(matches[k], MaxLen(matches) + 2)]
    /\ selection' = {}
    /\ current_suggestions' = matches
    /\ suggestion_window' = TRUE

HideSuggestions ==
    /\ suggestion_window' = FALSE
    /\ current_suggestions' = <<>>

\* ShowQuickInput without quick_entry.delete(0, tk.END).
ShowQuickInputKeepText ==
    /\ quick_entry' = quick_entry
    /\ quick_window' = TRUE
    /\ focus' = "entry"
    /\ is_quick_window_visible' = TRUE

ShowQuickInput ==
    /\ quick_entry' = <<>>
    /\ quick_window' = TRUE
    /\ focus' = "entry"
    /\ is_quick_window_visible' = TRUE

\* HideQuickInput without suggestion_window.withdraw().
HideQuickInputKeepList ==
    /\ quick_window' = FALSE
    /\ suggestion_window' = suggestion_window
    /\ is_quick_window_visible' = FALSE

HideQuickInput ==
    /\ quick_window' = FALSE
    /\ suggestion_window' = FALSE
    /\ is_quick_window_visible' = FALSE

ToggleQuickInput ==
    IF is_quick_window_visible
    THEN HideQuickInput /\ UNCHANGED <<quick_entry, focus>>
    ELSE ShowQuickInput /\ UNCHANGED suggestion_window

(***************************************************************************)
(* The hotkey thread and the toggle it posts.                              *)
(***************************************************************************)
\* hotkey_thread: the first keyboard.wait('ctrl+f1') registers the hotkey with
\* the keyboard library, which installs its hook.
HotkeyRegister ==
    /\ ~exited
    /\ running
    /\ ~hooked
    /\ hooked' = TRUE
    /\ last' = Outcome("hotkey_thread", <<>>, FALSE, FALSE, "none")
    /\ UNCHANGED <<store, pending, is_quick_window_visible, quick_window,
                   suggestion_window, quick_entry, suggestion_listbox, selection,
                   focus, current_suggestions, clipboard, running, exited>>

\* hotkey_thread calling toggle_quick_input itself instead of posting it.
HotkeyPressedToggles ==
    /\ ~exited
    /\ hooked
    /\ running
    /\ ToggleQuickInput
    /\ last' = Outcome("hotkey_thread", <<>>, FALSE, FALSE, "none")
    /\ UNCHANGED <<store, pending, suggestion_listbox, selection,
                   current_suggestions, clipboard>>
    /\ UNCHANGED process

\* hotkey_thread: keyboard.wait returns, self.running holds,
\* root.after(0, self.toggle_quick_input), and the loop waits again.
HotkeyPressed ==
    /\ ~exited
    /\ hooked
    /\ running
    /\ pending < MaxPending
    /\ pending' = pending + 1
    /\ last' = Outcome("hotkey_thread", <<>>, FALSE, FALSE, "none")
    /\ UNCHANGED <<store, is_quick_window_visible, quick_window,
                   suggestion_window, quick_entry, suggestion_listbox, selection,
                   focus, current_suggestions, clipboard>>
    /\ UNCHANGED process

\* The UI loop runs a posted toggle_quick_input.
ToggleRequest ==
    /\ pending > 0
    /\ pending' = pending - 1
    /\ ToggleQuickInput
    /\ last' = Outcome("toggle_quick_input", <<>>, FALSE, FALSE, "none")
    /\ UNCHANGED <<store, suggestion_listbox, selection,
                   current_suggestions, clipboard>>
    /\ UNCHANGED process

(***************************************************************************)
(* The events of the quick entry.                                          *)
(***************************************************************************)
EntryHasFocus == quick_window /\ focus = "entry"

\* <Escape> on the entry: lambda e: self.toggle_quick_input()
EntryEscape ==
    /\ EntryHasFocus
    /\ ToggleQuickInput
    /\ last' = Outcome("entry_escape", <<>>, FALSE, FALSE, "none")
    /\ UNCHANGED <<store, pending, suggestion_listbox, selection,
                   current_suggestions, clipboard>>
    /\ UNCHANGED process

\* The user edits the text of the entry (typing, deleting, pasting).
EntryEdit(q) ==
    /\ EntryHasFocus
    /\ q # quick_entry
    /\ quick_entry' = q
    /\ last' = Outcome("tk", <<>>, FALSE, FALSE, "none")
    /\ UNCHANGED <<store, pending, is_quick_window_visible,
                   quick_window, suggestion_window, suggestion_listbox, selection,
                   focus, current_suggestions, clipboard>>
    /\ UNCHANGED process

\* A mouse click in the entry gives it the focus.
EntryClick ==
    /\ quick_window
    /\ focus # "entry"
    /\ focus' = "entry"
    /\ last' = Outcome("tk", <<>>, FALSE, FALSE, "none")
    /\ UNCHANGED <<store, pending, is_quick_window_visible,
                   quick_window, suggestion_window, quick_entry,
                   suggestion_listbox, selection, current_suggestions, clipboard>>
    /\ UNCHANGED process

\* <KeyRelease> on the entry: update_suggestions.  db_ok is FALSE when
\* cursor.execute raises.
UpdateSuggestions(db_ok) ==
    LET text == PyStrip(quick_entry)
        search_text == PyLower(Tail(text))
        matches == IF search_text # <<>>
                   THEN SearchRows(store, search_text)
                   ELSE ListAllRows(store)
    IN  IF StartsWithTrigger(text)
        THEN IF db_ok
             THEN /\ IF matches # <<>>
                     THEN ShowSuggestions(matches)
                     ELSE HideSuggestions /\ UNCHANGED <<suggestion_listbox, selection>>
                  /\ last' = Outcome("update_suggestions", quick_entry, FALSE, FALSE, "none")
             ELSE /\ UNCHANGED <<suggestion_window, suggestion_listbox, selection,
                                 current_suggestions>>
                  /\ last' = Outcome("update_suggestions", quick_entry, TRUE, FALSE, "none")
        ELSE /\ db_ok
             /\ HideSuggestions
             /\ UNCHANGED <<suggestion_listbox, selection>>
             /\ last' = Outcome("update_suggestions", quick_entry, FALSE, FALSE, "none")

EntryKeyRelease ==
    /\ EntryHasFocus
    /\ \E db_ok \in BOOLEAN : UpdateSuggestions(db_ok)
    /\ UNCHANGED <<store, pending, is_quick_window_visible,
                   quick_window, quick_entry, focus, clipboard>>
    /\ UNCHANGED process

\* <Return> on the entry: process_quick_input.  db_ok is FALSE when
\* cursor.execute raises sqlite3.Error, clip_ok is FALSE when pyperclip.copy raises.
ProcessQuickInput(db_ok, clip_ok) ==
    LET text == PyStrip(quick_entry)
        search_text == PyLower(Tail(text))
        done(db_failed, clip_failed, note) ==
            /\ quick_entry' = <<>>
            /\ last' = Outcome("process_quick_input", quick_entry,
                               db_failed, clip_failed, note)
        stay == UNCHANGED <<is_quick_window_visible, quick_window,
                            suggestion_window, clipboard>>
    IN  IF ~StartsWithTrigger(text)
        THEN db_ok /\ clip_ok /\ stay /\ done(FALSE, FALSE, "none")
        ELSE IF ~db_ok
        THEN clip_ok /\ stay /\ done(TRUE, FALSE, "db_error")
        ELSE IF ResolveRows(store, search_text) = {}
        THEN clip_ok /\ stay /\ done(FALSE, FALSE, "no_match")
        ELSE \E a \in ResolveRows(store, search_text) :
                IF clip_ok
                THEN /\ clipboard' = store[a]
                     /\ HideQuickInput
                     /\ done(FALSE, FALSE, "copied")
                ELSE stay /\ done(FALSE, TRUE, "clip_error")

EntryReturn ==
    /\ EntryHasFocus
    /\ \E db_ok \in BOOLEAN, clip_ok \in BOOLEAN : ProcessQuickInput(db_ok, clip_ok)
    /\ UNCHANGED <<store, pending, suggestion_listbox, selection,
                   focus, current_suggestions>>
    /\ UNCHANGED process

\* <Down> on the entry: focus_suggestions.  create_quick_input_window binds it
\* after create_suggestion_window bound handle_quick_entry_keys, so it is the
\* binding of <Down> in force.  selection_set(0) adds row 0 to the selection.
FocusSuggestions ==
    IF suggestion_window
    THEN /\ focus' = "listbox"
         /\ selection' = IF Len(suggestion_listbox) > 0
                         THEN selection \cup {0}
                         ELSE selection
    ELSE UNCHANGED <<focus, selection>>

\* <Up>, <Tab> on the entry: handle_quick_entry_keys.  On None the bindings of
\* Tk run: TEntry has none for <Up>, and <Tab> finds no other widget that takes
\* the focus in the window.
HandleQuickEntryKeys(key) ==
    IF suggestion_window /\ key \in {"Down", "Tab"}
    THEN /\ focus' = "listbox"
         /\ selection' = IF Len(suggestion_listbox) > 0 THEN {0} ELSE {}
    ELSE UNCHANGED <<focus, selection>>

EntryKey(key) ==
    /\ EntryHasFocus
    /\ IF key = "Down"
       THEN FocusSuggestions /\ last' = KeyOutcome("focus_suggestions", key)
       ELSE HandleQuickEntryKeys(key)
               /\ last' = KeyOutcome("handle_quick_entry_keys", key)
    /\ UNCHANGED <<store, pending, is_quick_window_visible,
                   quick_window, suggestion_window, quick_entry,
                   suggestion_listbox, current_suggestions, clipboard>>
    /\ UNCHANGED process

(***************************************************************************)
(* The events of the suggestion listbox.                                   *)
(***************************************************************************)
ListHasFocus == suggestion_window /\ focus = "listbox"

\* curselection()[0]
FirstSelected == CHOOSE i \in selection : \A j \in selection : i <= j

\* <Up>, <Down>, <Tab> on the listbox: handle_suggestion_keys
HandleSuggestionKeys(key) ==
    LET size == Len(suggestion_listbox)
    IN  IF selection = {}
        THEN IF key \in {"Down", "Tab"}
             THEN /\ selection' = IF size > 0 THEN {0} ELSE {}
                  /\ UNCHANGED focus
             ELSE /\ focus' = "entry"
                  /\ UNCHANGED selection
        ELSE IF key = "Up"
             THEN IF FirstSelected = 0
                  THEN /\ selection' = selection \ {0}
                       /\ focus' = "entry"
                  ELSE /\ selection' = {FirstSelected - 1}
                       /\ UNCHANGED focus
             ELSE IF FirstSelected < size - 1
                  THEN /\ selection' = {FirstSelected + 1}
                       /\ UNCHANGED focus
                  ELSE UNCHANGED <<selection, focus>>

ListKey(key) ==
    /\ ListHasFocus
    /\ HandleSuggestionKeys(key)
    /\ last' = KeyOutcome("handle_suggestion_keys", key)
    /\ UNCHANGED <<store, pending, is_quick_window_visible,
                   quick_window, suggestion_window, quick_entry,
                   suggestion_listbox, current_suggestions, clipboard>>
    /\ UNCHANGED process

\* <Escape> on the listbox: lambda e: self.hide_suggestions()
ListEscape ==
    /\ ListHasFocus
    /\ HideSuggestions
    /\ last' = Outcome("list_escape", <<>>, FALSE, FALSE, "none")
    /\ UNCHANGED <<store, pending, is_quick_window_visible,
                   quick_window, quick_entry, suggestion_listbox, selection,
                   focus, clipboard>>
    /\ UNCHANGED process

\* ListClick with <Button-1> copying the content of the row, as the double
\* click does.
ListClickCopying(i) ==
    /\ suggestion_window
    /\ i < Len(suggestion_listbox)
    /\ selection' = {i}
    /\ focus' = "listbox"
    /\ clipboard' = IF i < Len(current_suggestions)
                    THEN current_suggestions[i + 1][2]
                    ELSE clipboard
    /\ last' = Outcome("handle_suggestion_click", <<>>, FALSE, FALSE, "none")
    /\ UNCHANGED <<store, pending, is_quick_window_visible,
                   quick_window, suggestion_window, quick_entry,
                   suggestion_listbox, current_suggestions>>
    /\ UNCHANGED process

\* <Button-1> on row i: handle_suggestion_click, then the listbox selects the row
\* and takes the focus.
ListClick(i) ==
    /\ suggestion_window
    /\ i < Len(suggestion_listbox)
    /\ selection' = {i}
    /\ focus' = "listbox"
    /\ last' = Outcome("handle_suggestion_click", <<>>, FALSE, FALSE, "none")
    /\ UNCHANGED <<store, pending, is_quick_window_visible,
                   quick_window, suggestion_window, quick_entry,
                   suggestion_listbox, current_suggestions, clipboard>>
    /\ UNCHANGED process

\* <Return> or <Double-Button-1> on the listbox: use_suggestion.  clip_ok is
\* FALSE when pyperclip.copy raises.
UseSuggestion(clip_ok) ==
    IF selection # {} /\ FirstSelected < Len(current_suggestions)
    THEN IF clip_ok
         THEN /\ clipboard' = current_suggestions[FirstSelected + 1][2]
              /\ HideQuickInput
              /\ last' = Outcome("use_suggestion", <<>>, FALSE, FALSE, "copied_alias")
         ELSE /\ UNCHANGED <<clipboard, is_quick_window_visible, quick_window,
                             suggestion_window>>
              /\ last' = Outcome("use_suggestion", <<>>, FALSE, TRUE, "none")
    ELSE /\ clip_ok
         /\ UNCHANGED <<clipboard, is_quick_window_visible, quick_window,
                        suggestion_window>>
         /\ last' = Outcome("use_suggestion", <<>>, FALSE, FALSE, "none")

\* ListCommit deleting the rows of the store whose content it copied.
ListCommitConsuming ==
    /\ ListHasFocus
    /\ \E clip_ok \in BOOLEAN : UseSuggestion(clip_ok)
    /\ store' = [a \in {b \in DOMAIN store : store[b] # clipboard'} |-> store[a]]
    /\ UNCHANGED <<pending, quick_entry, suggestion_listbox,
                   selection, focus, current_suggestions>>
    /\ UNCHANGED process

ListCommit ==
    /\ ListHasFocus
    /\ \E clip_ok \in BOOLEAN : UseSuggestion(clip_ok)
    /\ UNCHANGED <<store, pending, quick_entry, suggestion_listbox,
                   selection, focus, current_suggestions>>
    /\ UNCHANGED process

(***************************************************************************)
(* The management window.                                                  *)
(***************************************************************************)
\* INSERT ... ON CONFLICT(alias) DO UPDATE SET content = excluded.content
Upsert(st, alias, content) ==
    [a \in DOMAIN st \cup {alias} |-> IF a = alias THEN content ELSE st[a]]

\* Add/Update: save_alias
SaveAlias(alias_text, content) ==
    /\ ~exited
    /\ store' = IF PyStrip(alias_text) = <<>>
                THEN store
                ELSE Upsert(store, PyStrip(alias_text), content)
    /\ last' = Outcome("save_alias", <<>>, FALSE, FALSE, "none")
    /\ UNCHANGED <<pending, is_quick_window_visible, quick_window,
                   suggestion_window, quick_entry, suggestion_listbox, selection,
                   focus, current_suggestions, clipboard>>
    /\ UNCHANGED process

\* Delete: delete_alias on the row selected in the tree
DeleteAlias(alias) ==
    /\ ~exited
    /\ alias \in DOMAIN store
    /\ store' = [a \in DOMAIN store \ {alias} |-> store[a]]
    /\ last' = Outcome("delete_alias", <<>>, FALSE, FALSE, "none")
    /\ UNCHANGED <<pending, is_quick_window_visible, quick_window,
                   suggestion_window, quick_entry, suggestion_listbox, selection,
                   focus, current_suggestions, clipboard>>
    /\ UNCHANGED process

(***************************************************************************)
(* The ways the process ends.                                              *)
(***************************************************************************)
\* os._exit(0): the process and its windows are gone; the database file and
\* the system clipboard stay.
OsExit(op) ==
    /\ exited' = TRUE
    /\ pending' = 0
    /\ is_quick_window_visible' = FALSE
    /\ quick_window' = FALSE
    /\ suggestion_window' = FALSE
    /\ quick_entry' = <<>>
    /\ suggestion_listbox' = <<>>
    /\ selection' = {}
    /\ focus' = "none"
    /\ current_suggestions' = <<>>
    /\ last' = Outcome(op, <<>>, FALSE, FALSE, "none")
    /\ UNCHANGED <<store, clipboard>>

\* force_exit: print, os._exit(0)
ForceExit(op) ==
    /\ UNCHANGED <<running, hooked>>
    /\ OsExit(op)

\* The tray menu "Quit": quit_application
QuitApplication ==
    /\ ~exited
    /\ running' = FALSE
    /\ hooked' = FALSE
    /\ OsExit("quit_application")

\* The Exit button: threading.Thread(target=self.force_exit).start()
ExitButton ==
    /\ ~exited
    /\ ForceExit("exit_button")

\* run: mainloop returns or raises, finally: self.force_exit()
RunFinally ==
    /\ ~exited
    /\ ForceExit("run")

(***************************************************************************)
(* The specification.                                                      *)
(***************************************************************************)
Next ==
    \/ HotkeyRegister
    \/ HotkeyPressed
    \/ ToggleRequest
    \/ EntryEscape
    \/ \E q \in Queries : EntryEdit(q)
    \/ EntryClick
    \/ EntryKeyRelease
    \/ EntryReturn
    \/ \E key \in NavKeys : EntryKey(key)
    \/ \E key \in NavKeys : ListKey(key)
    \/ ListEscape
    \/ \E i \in 0..(Limit - 1) : ListClick(i)
    \/ ListCommit
    \/ \E alias_text \in SaveAliases, content \in SaveContents :
          SaveAlias(alias_text, content)
    \/ \E alias \in DeleteAliases : DeleteAlias(alias)
    \/ QuitApplication
    \/ ExitButton
    \/ RunFinally

Spec == Init /\ [][Next]_vars

(***************************************************************************)
(* The states of the overlay, and what the claims compare the code with.   *)
(***************************************************************************)
Hidden == ~is_quick_window_visible /\ ~quick_window /\ ~suggestion_window

VisibleNoSuggestions == is_quick_window_visible /\ quick_window /\ ~suggestion_window

\* Case-insensitive comparison as the specification means it: letters of every
\* script fold.
Fold(s) == PyLower(s)

IsPrefixOf(t, s) == Len(t) <= Len(s) /\ SubSeq(s, 1, Len(t)) = t

Contains(s, t) ==
    \E k \in 0..Len(s) : k + Len(t) <= Len(s) /\ SubSeq(s, k + 1, k + Len(t)) = t

\* The tier of the specification: exact match, starts with the term, contains it.
SpecTier(alias, term) ==
    IF Fold(alias) = Fold(term) THEN 0
    ELSE IF IsPrefixOf(Fold(term), Fold(alias)) THEN 1
    ELSE 2

SpecLess(a, b, term) ==
    IF SpecTier(a, term) # SpecTier(b, term) THEN SpecTier(a, term) < SpecTier(b, term)
    ELSE IF Len(a) # Len(b) THEN Len(a) < Len(b)
    ELSE BinaryLess(a, b)

RECURSIVE SpecOrder(_, _, _)
SpecOrder(st, aliases, term) ==
    IF aliases = {} THEN <<>>
    ELSE LET first == CHOOSE a \in aliases :
                        \A b \in aliases \ {a} : SpecLess(a, b, term)
         IN <<(<<first, st[first]>>)>> \o SpecOrder(st, aliases \ {first}, term)

\* search(term, 10) of the specification.
SpecSearch(st, term) ==
    LET found == {a \in DOMAIN st : Contains(Fold(a), Fold(term))}
        rows == SpecOrder(st, found, term)
    IN SubSeq(rows, 1, IF Len(rows) < Limit THEN Len(rows) ELSE Limit)

UpdateRan == last.op = "update_suggestions" /\ ~last.db_failed

(***************************************************************************)
(* The claims.                                                             *)
(***************************************************************************)

\* C1 (as stated): after an escape key event, on the entry or on the list, the
\* overlay is HIDDEN: the flag is false and both windows are withdrawn.
C1_EscapeAlwaysHides ==
    last.op \in {"entry_escape", "list_escape"} => Hidden

\* C2 (as stated): after a commit whose clipboard write failed, from the entry or
\* from the list, the overlay is HIDDEN.
C2_CommitHidesWhenClipboardFails ==
    (last.op \in {"process_quick_input", "use_suggestion"} /\ last.clip_failed)
        => Hidden

\* C3 (as stated): after a keystroke on a query whose first character is not the
\* trigger, leading whitespace included, no suggestion is listed and the
\* suggestion window is hidden.
C3_NoTriggerFirstCharNoSuggestions ==
    (UpdateRan /\ (quick_entry = <<>> \/ quick_entry[1] # "/"))
        => (current_suggestions = <<>> /\ ~suggestion_window)

\* C3 (amended): after a keystroke on a query that, stripped of surrounding
\* whitespace, is empty or has a first character other than the trigger, no
\* suggestion is listed and the suggestion window is hidden.
C3_NoTriggerAfterStripNoSuggestions ==
    (last.op = "update_suggestions"
       /\ LET text == PyStrip(quick_entry) IN text = <<>> \/ text[1] # "/")
        => (current_suggestions = <<>> /\ ~suggestion_window)

\* C3 witness: a keystroke was handled on the query "hi" while the alias "hi" is
\* stored.
C3_Witness ==
    /\ last.op = "update_suggestions"
    /\ quick_entry = <<"h", "i">>
    /\ <<"h", "i">> \in DOMAIN store

\* C4 (as stated): after a keystroke on the query "/" + a for a stored alias a,
\* the row (a, content of a) is among the suggestions, and it is the first one
\* when no other stored alias equals a without regard to case.
C4_StoredAliasIsSuggested ==
    UpdateRan =>
        \A a \in DOMAIN store :
            quick_entry = <<"/">> \o a =>
                /\ \E k \in 1..Len(current_suggestions) :
                      current_suggestions[k] = <<a, store[a]>>
                /\ (\A b \in DOMAIN store : Fold(b) = Fold(a) => b = a)
                      => (current_suggestions # <<>>
                            /\ current_suggestions[1] = <<a, store[a]>>)

\* C5 (as stated): after a keystroke on the query "/" + term with a non-empty
\* term, the suggestions are exactly the rows whose alias contains the term
\* without regard to case, ordered by tier, then alias length, then alias, and
\* cut to the first 10.
C5_SuggestionsAreTheSpecSearch ==
    (UpdateRan /\ Len(quick_entry) > 1 /\ quick_entry[1] = "/")
        => current_suggestions = SpecSearch(store, Tail(quick_entry))

\* C6: in every reachable state current_suggestions and the rows of the listbox
\* have at most 10 elements.
C6_AtMostTenSuggestions ==
    Len(current_suggestions) <= Limit /\ Len(suggestion_listbox) <= Limit

\* C6 witness: the store holds more than 10 rows and 10 suggestions are listed.
C6_Witness ==
    /\ Cardinality(DOMAIN store) > Limit
    /\ Len(current_suggestions) = Limit
    /\ Len(suggestion_listbox) = Limit
    /\ suggestion_window

\* C7: a toggle request processed while the overlay is hidden leaves the input
\* window shown, the suggestion window not shown and the entry empty.
C7_ToggleFromHiddenShowsEmptyEntry ==
    [][(last'.op = "toggle_quick_input" /\ pending' < pending
            /\ ~is_quick_window_visible)
         => (VisibleNoSuggestions' /\ quick_entry' = <<>> /\ focus' = "entry")]_vars

\* C7 witness: the overlay was shown again by a toggle after a cycle that listed
\* suggestions and copied a content.
C7_Witness ==
    /\ last.op = "toggle_quick_input"
    /\ is_quick_window_visible
    /\ current_suggestions # <<>>
    /\ clipboard # ""

\* C8: in every reachable state the suggestion window is shown only if the
\* overlay is visible.
C8_SuggestionsOnlyWhileVisible ==
    suggestion_window => (is_quick_window_visible /\ quick_window)

\* C8 witness: the overlay was hidden by a toggle while suggestions of its
\* session were listed for a query still in the entry.
C8_Witness ==
    /\ last.op = "toggle_quick_input"
    /\ ~is_quick_window_visible
    /\ current_suggestions # <<>>
    /\ quick_entry # <<>>
    /\ ~suggestion_window

\* C9 (as stated): after enter on the entry with the query "/" + a, in any letter
\* case, for a stored alias a, and no failure of the store or of the clipboard,
\* the clipboard holds the content of a and the overlay is HIDDEN.
C9_EnterCopiesStoredAlias ==
    (last.op = "process_quick_input" /\ ~last.db_failed /\ ~last.clip_failed)
        => \A a \in DOMAIN store :
              (last.query # <<>> /\ last.query[1] = "/"
                 /\ Fold(Tail(last.query)) = Fold(a))
                  => (clipboard = store[a] /\ Hidden)

\* C10 (as stated, for the enters that the code answers with "no match"): enter
\* on the entry with a query that starts with the trigger and a term that no
\* stored alias equals or contains, answered by the "no match" notification,
\* writes nothing to the clipboard, clears the entry and leaves the overlay
\* visible with the suggestion window hidden.
C10_NoMatchStaysVisibleWithoutSuggestions ==
    [][(/\ EntryHasFocus
        /\ pending' = pending
        /\ last'.op = "process_quick_input"
        /\ last'.query = quick_entry
        /\ last'.note = "no_match"
        /\ quick_entry # <<>>
        /\ quick_entry[1] = "/"
        /\ \A a \in DOMAIN store : ~Contains(Fold(a), Fold(Tail(quick_entry))))
         => (/\ clipboard' = clipboard
             /\ quick_entry' = <<>>
             /\ VisibleNoSuggestions')]_vars

\* C11: when the query of the store fails during a keystroke, the result is
\* treated as empty: the suggestion window is hidden and current_suggestions is
\* empty afterwards.  The code only prints the error and leaves the list that
\* was shown before on the screen.
C11_FailedQueryHidesSuggestions ==
    (last.op = "update_suggestions" /\ last.db_failed)
        => (~suggestion_window /\ current_suggestions = <<>>)

\* C12: on every path by which the process exits (quit_application, the Exit
\* button, the finally block of run) the hotkey hook has been released when the
\* process terminates.  force_exit calls os._exit(0) and nothing else.
C12_HookReleasedAtExit == exited => ~hooked

\* C13: no two stored aliases are equal when compared without regard to letter
\* case.  The UNIQUE constraint of the alias column compares bytes, so save_alias
\* inserts 'Hi' next to 'hi'.
C13_AliasesUniqueIgnoringCase ==
    \A a \in DOMAIN store, b \in DOMAIN store : NoCaseEq(a, b) => a = b

\* What C14 calls the overlay state: visibility, query, suggestions, focus and
\* selection.
overlay ==
    <<is_quick_window_visible, quick_window, suggestion_window, quick_entry,
      suggestion_listbox, selection, focus, current_suggestions>>

\* C14: a step of the hotkey thread changes nothing of the overlay, and when the
\* hotkey fires it posts exactly one toggle request; the overlay changes only in
\* steps of other handlers.
C14_HotkeyThreadOnlyPostsToggle ==
    [][(last'.op = "hotkey_thread")
         => (/\ UNCHANGED overlay
             /\ pending' \in {pending, pending + 1}
             /\ (pending' = pending => (~hooked /\ hooked')))]_vars

\* C14 witness: the hotkey fired while the overlay was visible with a list and a
\* selected row, and its request is waiting in the queue of the UI loop.
C14_Witness ==
    /\ last.op = "hotkey_thread"
    /\ pending = 1
    /\ is_quick_window_visible
    /\ suggestion_window
    /\ focus = "listbox"
    /\ selection # {}

\* The handlers of the overlay ("tk": typing and clicking in the entry).
OverlayOps ==
    { "toggle_quick_input", "entry_escape", "tk", "update_suggestions",
      "process_quick_input", "focus_suggestions", "handle_quick_entry_keys",
      "handle_suggestion_keys",
      "list_escape", "handle_suggestion_click", "use_suggestion" }

\* C15: no step of an overlay handler (toggle, show, hide, keystroke, list
\* navigation, commit from the entry, commit from the list, escape) changes the
\* rows of the alias store.
C15_OverlayLeavesStoreUnchanged ==
    [][(last'.op \in OverlayOps) => (store' = store)]_vars

\* C15 witness: a commit from the list copied the content of an alias, and the
\* alias is still stored with that content.
C15_Witness ==
    /\ last.op = "use_suggestion"
    /\ last.note = "copied_alias"
    /\ \E a \in DOMAIN store : store[a] = clipboard

\* A step of handle_suggestion_keys for the key, taken with the overlay visible
\* and the focus on the list.
ListKeyStep(keys) ==
    /\ is_quick_window_visible
    /\ ListHasFocus
    /\ last'.op = "handle_suggestion_keys"
    /\ last'.key \in keys

\* C16: with the focus on the list and the selection at row 0 (curselection()[0]
\* is 0), <Up> moves the focus to the entry and leaves no row selected; the input
\* window and the suggestion window stay visible.  selection_clear(0) clears
\* row 0 only, and focus_suggestions can have added row 0 to a selected row.
C16_UpAtFirstRowReturnsToEntry ==
    [][(ListKeyStep({"Up"}) /\ selection # {} /\ FirstSelected = 0)
         => (/\ focus' = "entry"
             /\ selection' = {}
             /\ is_quick_window_visible' /\ quick_window' /\ suggestion_window'
             /\ UNCHANGED <<quick_entry, suggestion_listbox, current_suggestions>>)]_vars

\* The rows update_suggestions fetches for the text of the entry.
MatchResult(st, entry_text) ==
    LET text == PyStrip(entry_text)
        search_text == PyLower(Tail(text))
    IN  IF ~StartsWithTrigger(text) THEN <<>>
        ELSE IF search_text # <<>> THEN SearchRows(st, search_text)
        ELSE ListAllRows(st)

\* C17: after a keystroke in the entry whose query of the store succeeded, the
\* list is the match result for the current text; the suggestion window is
\* shown with the focus on the entry if the result is not empty and hidden if it
\* is empty; and no row is selected, whatever was selected before.  When the
\* result is empty the code withdraws the window without clearing the listbox,
\* so the row selected before stays selected.
C17_KeystrokeRebuildsListUnselected ==
    UpdateRan =>
        LET result == MatchResult(store, quick_entry)
        IN  /\ current_suggestions = result
            /\ result # <<>> => (suggestion_window /\ focus = "entry")
            /\ result = <<>> => ~suggestion_window
            /\ selection = {}

\* process_quick_input copied a content for a term no alias equals.
FallbackCopied ==
    /\ last.op = "process_quick_input"
    /\ last.note = "copied"
    /\ ExactRows(store, PyLower(Tail(PyStrip(last.query)))) = {}

ListCommitStep ==
    /\ is_quick_window_visible
    /\ ListHasFocus
    /\ selection # {}
    /\ last'.op = "use_suggestion"

\* C19: a commit on the list with row i selected writes the content of the i-th
\* row of current_suggestions, which is the row displayed at index i, to the
\* clipboard, emits the notification and hides the overlay.  When pyperclip.copy
\* raises, the code writes nothing, notifies nothing and leaves the overlay shown.
C19_ListCommitCopiesRowAndHides ==
    [][ListCommitStep
         => (/\ FirstSelected < Len(current_suggestions)
             /\ Len(suggestion_listbox) = Len(current_suggestions)
             /\ suggestion_listbox[FirstSelected + 1].alias
                   = current_suggestions[FirstSelected + 1][1]
             /\ clipboard' = current_suggestions[FirstSelected + 1][2]
             /\ last'.note = "copied_alias"
             /\ Hidden')]_vars

\* C20: with the focus on the list and row i selected out of count rows, <Up>
\* with i > 0 selects i - 1, <Down> or <Tab> with i < count - 1 selects i + 1,
\* <Down> or <Tab> on the last row changes neither focus nor selection, and
\* while the focus stays on the list exactly one row in 0..count-1 is selected.
\* After <Down> on the entry two rows can be selected.
C20_ListNavigationStaysInRange ==
    [][ListKeyStep(NavKeys)
         => LET count == Len(suggestion_listbox)
            IN  /\ Cardinality(selection) = 1
                /\ FirstSelected < count
                /\ (last'.key = "Up" /\ FirstSelected > 0)
                      => (selection' = {FirstSelected - 1} /\ focus' = "listbox")
                /\ (last'.key \in {"Down", "Tab"} /\ FirstSelected < count - 1)
                      => (selection' = {FirstSelected + 1} /\ focus' = "listbox")
                /\ (last'.key \in {"Down", "Tab"} /\ FirstSelected = count - 1)
                      => UNCHANGED <<selection, focus>>
                /\ ListHasFocus'
                      => (Cardinality(selection') = 1 /\ selection' \subseteq 0..(count - 1))
                /\ UNCHANGED <<suggestion_listbox, current_suggestions,
                               suggestion_window, quick_entry>>]_vars

\* A step of the handler of <Down> or <Tab> on the entry, taken with the overlay
\* visible and the focus on the entry.
EntryNavStep ==
    /\ is_quick_window_visible
    /\ EntryHasFocus
    /\ last'.op \in {"focus_suggestions", "handle_quick_entry_keys"}
    /\ last'.key \in {"Down", "Tab"}

\* C21: with the suggestions shown and the focus on the entry, <Down> or <Tab>
\* moves the focus to the list with exactly row 0 selected; with no suggestions
\* shown they leave the focus on the entry and select nothing.  <Down> runs
\* focus_suggestions, whose selection_set(0) keeps the row selected before.
C21_DownOrTabSelectsRowZero ==
    [][EntryNavStep
         => IF suggestion_window
            THEN focus' = "listbox" /\ selection' = {0}
            ELSE focus' = "entry" /\ selection' = selection]_vars

\* C22: the search term is the text after the trigger, lowercased and stripped
\* of surrounding whitespace: the list for "/" + w + t is the list for "/" + t,
\* and a term that is empty after stripping gives the list of the bare "/".
\* The code strips the text before it removes the trigger, so the whitespace
\* between "/" and the term stays in the LIKE pattern.
C22_WhitespaceAfterTriggerIsIgnored ==
    (UpdateRan /\ quick_entry # <<>> /\ quick_entry[1] = "/")
        => current_suggestions
              = MatchResult(store, <<"/">> \o PyStrip(Tail(quick_entry)))

\* A step of process_quick_input, taken with the overlay visible and the focus
\* on the entry.
EntryCommitStep ==
    /\ is_quick_window_visible
    /\ EntryHasFocus
    /\ last'.op = "process_quick_input"

\* No resolution happened in the step: no statement ran and nothing was copied
\* or notified.
NoResolution ==
    /\ clipboard' = clipboard
    /\ last'.note = "none"
    /\ ~last'.db_failed
    /\ ~last'.clip_failed

\* C23 as stated: <Return> on the entry with a text whose first character is not
\* '/' resolves nothing: the store is not queried and the clipboard is not
\* written.
C23_NoTriggerFirstCharNoResolution ==
    [][(EntryCommitStep /\ (quick_entry = <<>> \/ quick_entry[1] # "/"))
         => NoResolution]_vars

\* C23 amended: <Return> on the entry with a text that, once the surrounding
\* whitespace is stripped, is empty or has a first character other than '/'
\* resolves nothing: the store is not queried and the clipboard is not written.
C23_NoTriggerAfterStripNoResolution ==
    [][(EntryCommitStep
          /\ (PyStrip(quick_entry) = <<>> \/ PyStrip(quick_entry)[1] # "/"))
         => (NoResolution /\ UNCHANGED store)]_vars

\* C23 witness: <Return> was pressed on the text 'hi' over a store that holds the
\* alias 'hi', and nothing was copied.
C23_Witness ==
    /\ last.op = "process_quick_input"
    /\ last.query = <<"h", "i">>
    /\ <<"h", "i">> \in DOMAIN store
    /\ clipboard = ""
    /\ is_quick_window_visible

\* C24: whenever the overlay is visible and the listbox has the keyboard focus,
\* the suggestion window is shown and current_suggestions is not empty.
\* <Escape> on the listbox withdraws the suggestion window and empties
\* current_suggestions without moving the focus.
C24_FocusedListIsShownAndNonEmpty ==
    (is_quick_window_visible /\ focus = "listbox")
        => (suggestion_window /\ current_suggestions # <<>>)

\* C25: the clipboard changes only in a step of process_quick_input or
\* use_suggestion, and such a step writes one content: of a stored alias for the
\* entry, of the selected row of current_suggestions for the list.  Toggle,
\* escape, keystroke, click and <Up>, <Down>, <Tab> steps leave it unchanged.
C25_OnlyCommitWritesClipboard ==
    [][(clipboard' # clipboard)
         => \/ /\ last'.op = "process_quick_input"
               /\ EntryHasFocus
               /\ \E a \in DOMAIN store : clipboard' = store[a]
            \/ /\ last'.op = "use_suggestion"
               /\ ListHasFocus
               /\ selection # {}
               /\ clipboard' = current_suggestions[FirstSelected + 1][2]]_vars

\* C25 witness: after a commit wrote the clipboard, the overlay was shown again
\* and a row of the list was reached with the keys, the content still there.
C25_Witness ==
    /\ clipboard # ""
    /\ last.op = "handle_suggestion_keys"
    /\ last.key = "Down"
    /\ selection = {1}
    /\ focus = "listbox"

====
